---- MODULE Spec2Model ----
(***************************************************************************)
(* Model of the membership signup form component (awu-signup): the         *)
(* payment-method state, the bank-link flow, the submit handler with its   *)
(* two tokenization strategies, and the SpliceableUrlSearchParams helper.  *)
(*                                                                         *)
(* One action of the model is one run-to-completion slice of a handler:    *)
(* the code between two awaits.  User events, SDK callbacks and settled    *)
(* promises are separate tasks of the event loop, so they interleave only  *)
(* at awaits.                                                              *)
(***************************************************************************)
EXTENDS Integers, Sequences, FiniteSets, TLC

\* ------------------------------------------------------------------------
\* Bounds of the model
\* ------------------------------------------------------------------------
\* submit events delivered during one run
MaxSubmits == 2
\* clicks on "Connect Bank" during one run
MaxLinks == 2
\* longest payload the splicer is exercised on
MaxLen == 3
\* splice/get calls made on one splicer
MaxSplices == 3
\* Signup elements constructed on one page
MaxInstances == 4
\* characters typed into the total-compensation input
MaxChars == 6

\* ------------------------------------------------------------------------
\* Values
\* ------------------------------------------------------------------------
\* the null of URLSearchParams.get
Null == "<null>"
\* plaidToken === undefined
NoToken == [public_token |-> << >>, account_name |-> << >>, account_id |-> Null]

Methods == {"bank", "card", "plaid"}

\* ------------------------------------------------------------------------
\* URLSearchParams: an ordered list of <<name, value>> pairs
\* ------------------------------------------------------------------------
\* URLSearchParams.get: the value of the first pair with that name, or null
ParamsGet(p, field) ==
  LET hits == SelectSeq(p, LAMBDA e : e[1] = field)
  IN IF hits = <<>> THEN Null ELSE hits[1][2]

\* a variant of delete that removes the first pair of that name only
ParamsDeleteFirst(p, field) ==
  IF \E i \in 1..Len(p) : p[i][1] = field
  THEN LET first == CHOOSE i \in 1..Len(p) :
                      /\ p[i][1] = field
                      /\ \A j \in 1..(i-1) : p[j][1] # field
       IN SubSeq(p, 1, first - 1) \o SubSeq(p, first + 1, Len(p))
  ELSE p

\* URLSearchParams.delete: removes every pair with that name
ParamsDelete(p, field) == SelectSeq(p, LAMBDA e : e[1] # field)

\* URLSearchParams.set: overwrite the first pair of that name and drop the
\* others, or append a new pair
ParamsSet(p, field, value) ==
  IF \E i \in 1..Len(p) : p[i][1] = field
  THEN LET first == CHOOSE i \in 1..Len(p) :
                      /\ p[i][1] = field
                      /\ \A j \in 1..(i-1) : p[j][1] # field
           head == [j \in 1..first |-> IF j = first THEN <<field, value>> ELSE p[j]]
       IN head \o ParamsDelete(SubSeq(p, first + 1, Len(p)), field)
  ELSE Append(p, <<field, value>>)

ParamsHas(p, field) == \E i \in 1..Len(p) : p[i][1] = field

ParamsNames(p) == {p[i][1] : i \in 1..Len(p)}

\* ------------------------------------------------------------------------
\* SpliceableUrlSearchParams
\* ------------------------------------------------------------------------
\* constructor: original is a copy of the input, remainder a copy of original
SpliceableUrlSearchParams(original) ==
  [original |-> original, remainder |-> original]

get(s, field) == ParamsGet(s.original, field)

\* a variant of splice that reads the returned value from the remainder
spliceFromRemainder(s, field) ==
  [self |-> [s EXCEPT !.remainder = ParamsDelete(@, field)],
   ret  |-> ParamsGet(s.remainder, field)]

\* splice: delete from the remainder, return what get returns
splice(s, field) ==
  [self |-> [s EXCEPT !.remainder = ParamsDelete(@, field)],
   ret  |-> get(s, field)]

\* getRemainder: a fresh copy of the remainder
getRemainder(s) == s.remainder

\* a variant that hands out the object itself instead of a copy
SameURLSearchParams(init) == [shared |-> TRUE, params |-> init]

\* new URLSearchParams(init) as an object: its pairs are a copy of init, and
\* it is not the object init was read from
NewURLSearchParams(init) == [shared |-> FALSE, params |-> init]

\* the objects after the pairs of the object read from changed: an object
\* that is that same object shows the change
Aliased(objects, params) ==
  [j \in DOMAIN objects |->
     IF objects[j].shared THEN [objects[j] EXCEPT !.params = params]
     ELSE objects[j]]

RECURSIVE spliceAll(_, _)
\* the splices of one createToken argument list, in order
spliceAll(s, names) ==
  IF names = <<>> THEN s
  ELSE spliceAll(splice(s, Head(names)).self, Tail(names))

\* ------------------------------------------------------------------------
\* The form: named inputs in document order
\* ------------------------------------------------------------------------
\* inputs rendered before the payment section; of the twenty-three the
\* model keeps four, the submit path treats them all alike
FieldsBeforePayment ==
  << "preferred-name", "employment-type", "total-compensation", "currency" >>

\* inputs rendered after the payment section
FieldsAfterPayment == << "signature" >>

\* named inputs of bankTemplate
bankTemplate ==
  << "routing-number", "account-number", "account-holder-name",
     "billing-country" >>

\* named inputs of cardTemplate
cardTemplate ==
  << "card-holder-name", "billing-address-1", "billing-address-2",
     "billing-city", "billing-state", "billing-zip", "billing-country" >>

\* plaidTemplate holds only the Connect Bank button
plaidTemplate == << >>

\* a variant of paymentMethodTemplate that leaves the inputs of every method
\* in the form
paymentMethodTemplateKeepAll(method) ==
  bankTemplate \o SelectSeq(cardTemplate, LAMBDA f : f # "billing-country")

\* paymentMethodTemplate: the inputs of the selected method only
paymentMethodTemplate(method) ==
  CASE method = "bank" -> bankTemplate
    [] method = "card" -> cardTemplate
    [] method = "plaid" -> plaidTemplate

\* which payment section render() shows: the verified account (Remove
\* button, no inputs) when a plaidToken exists, else the method toggle with
\* the template of the selected method
View(method, token) == IF token # NoToken THEN "connected" ELSE method

PaymentFields(view) ==
  IF view = "connected" THEN << >> ELSE paymentMethodTemplate(view)

\* the named inputs of the rendered form, in document order
FormFields(view) == FieldsBeforePayment \o PaymentFields(view) \o FieldsAfterPayment

SeqRange(q) == {q[i] : i \in 1..Len(q)}

AllFields ==
  SeqRange(FieldsBeforePayment) \cup SeqRange(bankTemplate)
    \cup SeqRange(cardTemplate) \cup SeqRange(FieldsAfterPayment)

\* the value a freshly rendered input starts with (selects start at their
\* selected option, the billing-country select of bankTemplate at US)
DefaultValue(view, field) ==
  CASE field = "currency" -> "usd"
    [] field = "employment-type" -> "fte"
    [] field = "billing-country" /\ view = "bank" -> "US"
    [] OTHER -> ""

FreshInput(view, field) == [value |-> DefaultValue(view, field), validity |-> ""]

\* the form after first render
InitialForm(view) ==
  [f \in SeqRange(FormFields(view)) |-> FreshInput(view, f)]

\* re-render after a state change: the inputs outside the payment section
\* are kept; when the payment section changes its template the old inputs
\* leave the form and the new template's inputs are created
render(form, oldView, newView) ==
  IF oldView = newView THEN form
  ELSE [f \in SeqRange(FormFields(newView)) |->
          IF f \in SeqRange(PaymentFields(newView))
          THEN FreshInput(newView, f)
          ELSE form[f]]

\* new FormData(this.form) turned into URLSearchParams
FormData(form, view) ==
  LET fs == SelectSeq(FormFields(view), LAMBDA f : f \in DOMAIN form)
  IN [i \in 1..Len(fs) |-> <<fs[i], form[fs[i]].value>>]

\* interactive validation: the submit event fires only when no input
\* carries a custom validity message
FormValid(form) == \A f \in DOMAIN form : form[f].validity = ""

\* setInvalid: namedItem(field) of the current form; null when the input is
\* not rendered, and setCustomValidity on null throws a TypeError
setInvalid(form, field, message) ==
  IF field \in DOMAIN form
  THEN [threw |-> FALSE, form |-> [form EXCEPT ![field].validity = message]]
  ELSE [threw |-> TRUE, form |-> form]

\* ------------------------------------------------------------------------
\* What the user types: the model edits the routing number only, the other
\* inputs keep the value they are rendered with
\* ------------------------------------------------------------------------
EditValues(field) ==
  CASE field = "routing-number" -> {"", "110000000"}
    [] OTHER -> {}

\* ------------------------------------------------------------------------
\* Tokenization strategies
\* ------------------------------------------------------------------------
\* a variant of the card strategy that reads the postal code with get
cardTokenSplicesNoZip ==
  << "card-holder-name", "billing-address-1", "billing-address-2",
     "billing-city", "billing-state", "billing-country" >>

\* the fields cardToken splices, in argument order
cardTokenSplices ==
  << "card-holder-name", "billing-address-1", "billing-address-2",
     "billing-city", "billing-state", "billing-zip", "billing-country" >>

\* the fields bankAccountToken splices, in argument order
bankAccountTokenSplices ==
  << "billing-country", "routing-number", "account-number",
     "account-holder-name" >>

Splices(strategy) ==
  IF strategy = "bank" THEN bankAccountTokenSplices ELSE cardTokenSplices

\* switch (result.error.param) of cardToken: the form field of a known
\* parameter, Null for the default branch
cardTokenErrorField(param) ==
  CASE param = "card[name]" -> "card-holder-name"
    [] param = "card[address_line1]" -> "billing-address-1"
    [] param = "card[address_line2]" -> "billing-address-2"
    [] param = "card[address_city]" -> "billing-city"
    [] param = "card[address_zip]" -> "billing-zip"
    [] param = "card[address_country]" -> "billing-country"
    [] param = "currency" -> "currency"
    [] OTHER -> Null

\* switch (result.error.param) of bankAccountToken
bankAccountTokenErrorField(param) ==
  CASE param = "bank_account[country]" -> "billing-country"
    [] param = "bank_account[currency]" -> "currency"
    [] param = "bank_account[routing_number]" -> "routing-number"
    [] param = "bank_account[account_number]" -> "account-number"
    [] param = "bank_account[account_holder_name]" -> "account-holder-name"
    [] OTHER -> Null

ErrorField(strategy, param) ==
  IF strategy = "bank" THEN bankAccountTokenErrorField(param)
  ELSE cardTokenErrorField(param)

CardParams ==
  {"card[name]", "card[address_line1]", "card[address_line2]",
   "card[address_city]", "card[address_zip]", "card[address_country]",
   "currency"}

BankParams ==
  {"bank_account[country]", "bank_account[currency]",
   "bank_account[routing_number]", "bank_account[account_number]",
   "bank_account[account_holder_name]"}

\* the parameters the processor is let to name in an error; card[number] is
\* outside both switches
StripeParams ==
  {"card[address_zip]", "bank_account[routing_number]", "card[number]"}

KnownParams(strategy) == IF strategy = "bank" THEN BankParams ELSE CardParams

\* messages a handler can pass to alert(); "" is a falsy rejection value
StripeMessage == "stripe: invalid"
ApiMessage == "api: rejected"
TypeError == "TypeError"
Rejected == "rejected"

\* error.param values the signup endpoint is let to answer with
ApiParams == {"currency", "no-such-field"}

\* the token id createToken resolves with
StripeTokenId == "tok_1"

\* the metadata a link success can carry: institution and listed accounts
PlaidMetadata ==
  { [institution |-> "Bank",
     accounts |-> << [name |-> "Savings", id |-> "acct-B"],
                     [name |-> "Checking", id |-> "acct-A"] >>] }

\* the public token handler k reports
PlaidPublicToken(k) == <<"public", k>>

\* ------------------------------------------------------------------------
\* Request bodies
\* ------------------------------------------------------------------------
\* a variant that forgets the account id
plaidBodyNoAccount(fields, token) ==
  ParamsSet(getRemainder(fields), "plaid-public-token", token.public_token)

\* submit, plaidToken branch: every field plus the two plaid keys
plaidBody(fields, token) ==
  ParamsSet(ParamsSet(getRemainder(fields),
                      "plaid-public-token", token.public_token),
            "plaid-account-id", token.account_id)

\* a variant that also attaches plaid keys of a stale token
stripeBodyWithPlaid(remainingFields, tokenId) ==
  ParamsSet(ParamsSet(remainingFields, "stripe-payment-token", tokenId),
            "plaid-public-token", PlaidPublicToken(1))

\* submit, tokenization branch: the strategy's remainder plus the token id
stripeBody(remainingFields, tokenId) ==
  ParamsSet(remainingFields, "stripe-payment-token", tokenId)

\* this.paymentMethod === 'bank' ? bankAccountToken : cardToken
strategyOf(method) == IF method = "bank" THEN "bank" ELSE "card"

\* a variant that clears the flag at the end of the try block only
exitLoadingNoFinally(threw) == threw

\* finally { this.isLoading = false }
exitLoading(threw) == FALSE

\* ------------------------------------------------------------------------
\* loadPlaid: the module-level memo of the script load
\* ------------------------------------------------------------------------
\* loadingPlaid === undefined
NoPromise == 0

\* a variant without the memo test: every call injects a script
loadPlaidNoMemo(memo, body) ==
  [loadingPlaid |-> Len(body) + 1,
   scripts |-> Append(body, "loading"),
   ret |-> Len(body) + 1]

\* loadPlaid: when the memo is empty a promise is created whose executor
\* appends a script element to document.body (promise p settles with script
\* p); the memo is returned
loadPlaid(memo, body) ==
  IF memo = NoPromise
  THEN [loadingPlaid |-> Len(body) + 1,
        scripts |-> Append(body, "loading"),
        ret |-> Len(body) + 1]
  ELSE [loadingPlaid |-> memo, scripts |-> body, ret |-> memo]

\* what an await of promise p yields once script p has fired load or error
Settlement(body, p) ==
  CASE body[p] = "loaded" -> "Plaid"
    [] body[p] = "failed" -> "error"
    [] OTHER -> "pending"

\* ------------------------------------------------------------------------
\* formattedDues
\* ------------------------------------------------------------------------
\* this.totalCompensation?.value while the input is not rendered yet
Undefined == << "undefined" >>

Digits == {"0", "1", "2", "3", "4", "5", "6", "7", "8", "9"}

DigitValue(c) ==
  CASE c = "0" -> 0 [] c = "1" -> 1 [] c = "2" -> 2 [] c = "3" -> 3
    [] c = "4" -> 4 [] c = "5" -> 5 [] c = "6" -> 6 [] c = "7" -> 7
    [] c = "8" -> 8 [] c = "9" -> 9

RECURSIVE DigitsValue(_)
\* the natural number a run of decimal digits denotes
DigitsValue(ds) ==
  IF ds = << >> THEN 0
  ELSE 10 * DigitsValue(SubSeq(ds, 1, Len(ds) - 1)) + DigitValue(ds[Len(ds)])

RECURSIVE Pow10(_)
Pow10(k) == IF k = 0 THEN 1 ELSE 10 * Pow10(k - 1)

\* numbers are kept exact, as num / den with den > 0
NaN == [nan |-> TRUE, num |-> 0, den |-> 1]
FromInteger(n) == [nan |-> FALSE, num |-> n, den |-> 1]

\* Number(value): undefined is NaN, the empty string is 0, a decimal literal
\* (optional sign, digits with an optional point, at least one digit) is
\* its value, any other text is NaN
Number(value) ==
  IF value = Undefined THEN NaN
  ELSE IF value = << >> THEN FromInteger(0)
  ELSE LET neg == value[1] = "-"
           body == IF neg THEN Tail(value) ELSE value
           points == {i \in 1..Len(body) : body[i] = "."}
           point == IF points = {} THEN Len(body) + 1
                    ELSE CHOOSE i \in points : TRUE
           whole == SubSeq(body, 1, point - 1)
           frac == SubSeq(body, point + 1, Len(body))
           literal ==
             /\ \A i \in 1..Len(body) : body[i] \in Digits \cup {"."}
             /\ Cardinality(points) <= 1
             /\ Len(whole) + Len(frac) > 0
           magnitude == DigitsValue(whole) * Pow10(Len(frac)) + DigitsValue(frac)
       IN IF literal
          THEN [nan |-> FALSE,
                num |-> IF neg THEN 0 - magnitude ELSE magnitude,
                den |-> Pow10(Len(frac))]
          ELSE NaN

\* Math.floor: the largest integer not above num / den
MathFloor(x) ==
  IF x.num >= 0 THEN x.num \div x.den
  ELSE 0 - ((0 - x.num + x.den - 1) \div x.den)

\* x / n for a positive integer n
Divide(x, n) == [x EXCEPT !.den = @ * n]

RECURSIVE NatToString(_)
NatToString(n) ==
  IF n < 10 THEN << CHOOSE c \in Digits : DigitValue(c) = n >>
  ELSE NatToString(n \div 10)
         \o << CHOOSE c \in Digits : DigitValue(c) = n % 10 >>

\* the text a template literal inserts for an integer
NumberToString(n) == IF n < 0 THEN << "-" >> \o NatToString(0 - n) ELSE NatToString(n)

\* a variant that leaves out the division by twelve
formattedDuesPerYear(value) ==
  LET comp == Number(value)
  IN IF ~comp.nan
     THEN << "$" >> \o NumberToString(MathFloor(Divide(FromInteger(MathFloor(comp)), 100)))
     ELSE << "$", "0" >>

\* formattedDues
formattedDues(value) ==
  LET comp == Number(value)
  IN IF ~comp.nan
     THEN << "$" >> \o NumberToString(MathFloor(
            Divide(Divide(FromInteger(MathFloor(comp)), 100), 12)))
     ELSE << "$", "0" >>

\* the characters the model types into the total-compensation input
CompChars == {"0", "2", "5", "-", "."}

\* ------------------------------------------------------------------------
\* State
\* ------------------------------------------------------------------------
VARIABLES
  paymentMethod,  \* Signup.paymentMethod
  isLoading,      \* Signup.isLoading
  isComplete,     \* Signup.isComplete
  plaidToken,     \* Signup.plaidToken, NoToken when undefined
  form,           \* the rendered form: input name -> [value, validity]
  attempts,       \* one record per submit event: the locals of that call
  links,          \* one record per Connect Bank click: that openPlaid call
  input,          \* splicer exercise: the constructor argument
  splicer,        \* splicer exercise: the SpliceableUrlSearchParams object
  calls,          \* splicer exercise: the splice calls made, in order
  returned,       \* splicer exercise: the maps getRemainder handed out
  loadingPlaid,   \* module variable loadingPlaid: a promise, or NoPromise
  scripts,        \* script elements appended to document.body, by state
  instances,      \* one record per constructed Signup: its this.plaid
  totalCompensation, \* value of the total-compensation input
  dues            \* the text render() put into the dues element

component == <<paymentMethod, isLoading, isComplete, plaidToken, form,
               attempts, links>>
exercise == <<input, splicer, calls, returned>>
loader == <<loadingPlaid, scripts, instances>>
compensation == <<totalCompensation, dues>>
vars == <<paymentMethod, isLoading, isComplete, plaidToken, form, attempts,
          links, input, splicer, calls, returned, loadingPlaid, scripts,
          instances,
          totalCompensation, dues>>

NoFields == SpliceableUrlSearchParams(<< >>)

Pending == {"stripe", "token", "post", "json"}

view == View(paymentMethod, plaidToken)

\* the record of a submit call that just started
NewAttempt(pc, strategy, fields, body) ==
  [pc |-> pc,
   method |-> paymentMethod,       \* this.paymentMethod when submit ran
   linked |-> plaidToken # NoToken,\* whether this.plaidToken was set
   token |-> plaidToken,
   strategy |-> strategy,          \* "none", "bank" or "card"
   fields |-> fields,              \* const fields / data
   body |-> body,                  \* body handed to fetch
   tokenCalls |-> 0,               \* stripe.createToken calls made
   posts |-> IF pc = "post" THEN 1 ELSE 0, \* POSTs to SIGNUP_API made
   alert |-> "",                   \* argument of alert(e), "" when none
   marked |-> {},                  \* fields this call passed to setInvalid
   complete |-> FALSE]             \* this call set isComplete

\* the record of a submit call that returned: its locals are gone
Finished(a, alert, marked, complete) ==
  [a EXCEPT !.pc = "done", !.fields = NoFields, !.body = << >>,
            !.token = NoToken, !.method = "", !.alert = alert, !.marked = marked, !.complete = complete]

InitComponent ==
  /\ paymentMethod = "plaid"
  /\ isLoading = FALSE
  /\ isComplete = FALSE
  /\ plaidToken = NoToken
  /\ form = InitialForm("plaid")
  /\ attempts = << >>
  /\ links = << >>

InitExercise ==
  /\ input = << >>
  /\ splicer = NoFields
  /\ calls = << >>
  /\ returned = << >>

\* the module was evaluated, no element constructed yet
InitLoader ==
  /\ loadingPlaid = NoPromise
  /\ scripts = << >>
  /\ instances = << >>

\* the field initializer plaid = loadPlaid() of the one element of the page
InitPlaid ==
  LET made == loadPlaid(NoPromise, << >>)
  IN /\ loadingPlaid = made.loadingPlaid
     /\ scripts = made.scripts
     /\ instances = << [plaid |-> made.ret, calledWhen |-> "first",
                        observed |-> "none"] >>

\* first render: the input is empty, and formattedDues ran before the
\* input was in the DOM
InitCompensation ==
  /\ totalCompensation = << >>
  /\ dues = formattedDues(Undefined)

Init == InitComponent /\ InitExercise /\ InitPlaid /\ InitCompensation

\* ------------------------------------------------------------------------
\* User events on the form
\* ------------------------------------------------------------------------
\* click on a button of the payment-method toggle (rendered while no
\* plaidToken exists)
setMethod(method) ==
  /\ view # "connected"
  /\ method # paymentMethod
  /\ paymentMethod' = method
  /\ form' = render(form, view, View(method, plaidToken))
  /\ UNCHANGED <<isLoading, isComplete, plaidToken, attempts, links, exercise, loader,
                 compensation>>

\* input event on a rendered input: the new value, and clearInvalidity on
\* the target
inputEvent(field, value) ==
  /\ field \in DOMAIN form
  /\ value \in EditValues(field)
  /\ form[field] # [value |-> value, validity |-> ""]
  /\ form' = [form EXCEPT ![field] = [value |-> value, validity |-> ""]]
  /\ UNCHANGED <<paymentMethod, isLoading, isComplete, plaidToken, attempts,
                 links, exercise, loader,
                 compensation>>

\* click on Remove of the verified account
clearPlaid ==
  /\ view = "connected"
  /\ plaidToken' = NoToken
  /\ form' = render(form, view, View(paymentMethod, NoToken))
  /\ UNCHANGED <<paymentMethod, isLoading, isComplete, attempts, links, exercise, loader,
                 compensation>>

\* ------------------------------------------------------------------------
\* openPlaid
\* ------------------------------------------------------------------------
\* click on Connect Bank (rendered by plaidTemplate): the link-token fetch
\* is issued
openPlaid ==
  /\ view = "plaid"
  /\ Len(links) < MaxLinks
  /\ links' = Append(links, [pc |-> "fetch", link_token |-> 0])
  /\ UNCHANGED <<paymentMethod, isLoading, isComplete, plaidToken, form,
                 attempts, exercise, loader,
                 compensation>>

\* the link-token fetch and this.plaid settled: a handler is created with
\* the token of this response and opened, or the call rejects
linkTokenResponse(k) ==
  /\ k \in 1..Len(links)
  /\ links[k].pc = "fetch"
  /\ \/ links' = [links EXCEPT ![k] = [pc |-> "open", link_token |-> k]]
     \/ links' = [links EXCEPT ![k].pc = "rejected"]
  /\ UNCHANGED <<paymentMethod, isLoading, isComplete, plaidToken, form,
                 attempts, exercise, loader,
                 compensation>>

\* a variant that takes the account listed last
onSuccessLastAccount(k, public_token, metadata) ==
  /\ k \in 1..Len(links)
  /\ links[k].pc = "open"
  /\ LET last == metadata.accounts[Len(metadata.accounts)]
         token == [public_token |-> public_token,
                   account_name |-> <<metadata.institution, last.name>>,
                   account_id |-> last.id]
     IN /\ plaidToken' = token
        /\ form' = render(form, view, View(paymentMethod, token))
  /\ links' = [links EXCEPT ![k].pc = "success"]
  /\ UNCHANGED <<paymentMethod, isLoading, isComplete, attempts, exercise,
                 loader, compensation>>

\* onSuccess callback of handler k
onSuccess(k, public_token, metadata) ==
  /\ k \in 1..Len(links)
  /\ links[k].pc = "open"
  /\ LET token == [public_token |-> public_token,
                   account_name |-> <<metadata.institution,
                                      metadata.accounts[1].name>>,
                   account_id |-> metadata.accounts[1].id]
     IN /\ plaidToken' = token
        /\ form' = render(form, view, View(paymentMethod, token))
  /\ links' = [links EXCEPT ![k].pc = "success"]
  /\ UNCHANGED <<paymentMethod, isLoading, isComplete, attempts, exercise, loader,
                 compensation>>

\* onExit callback of handler k: handler.destroy()
onExit(k) ==
  /\ k \in 1..Len(links)
  /\ links[k].pc = "open"
  /\ links' = [links EXCEPT ![k].pc = "destroyed"]
  /\ UNCHANGED <<paymentMethod, isLoading, isComplete, plaidToken, form,
                 attempts, exercise, loader,
                 compensation>>

\* ------------------------------------------------------------------------
\* submit
\* ------------------------------------------------------------------------
\* submit event, up to the first await: isLoading is set, the form is read,
\* and either the POST is issued with the plaid keys or the tokenization
\* strategy is entered (await this.stripe)
submit ==
  /\ Len(attempts) < MaxSubmits
  /\ FormValid(form)
  /\ isLoading' = TRUE
  /\ LET fields == SpliceableUrlSearchParams(FormData(form, view))
     IN attempts' = Append(attempts,
          IF plaidToken # NoToken
          THEN NewAttempt("post", "none", fields, plaidBody(fields, plaidToken))
          ELSE NewAttempt("stripe", strategyOf(paymentMethod), fields, << >>))
  /\ UNCHANGED <<paymentMethod, isComplete, plaidToken, form, links, exercise, loader,
                 compensation>>

\* this.stripe settled inside cardToken / bankAccountToken: the strategy's
\* fields are spliced and createToken is called, or the load rejected and
\* submit's catch and finally run
stripeSettled(i) ==
  /\ i \in 1..Len(attempts)
  /\ attempts[i].pc = "stripe"
  /\ \/ /\ attempts' = [attempts EXCEPT ![i] =
              [@ EXCEPT !.pc = "token",
                        !.fields = spliceAll(@, Splices(attempts[i].strategy)),
                        !.tokenCalls = @ + 1]]
        /\ UNCHANGED isLoading
     \/ /\ attempts' = [attempts EXCEPT ![i] = Finished(@, Rejected, {}, FALSE)]
        /\ isLoading' = exitLoading(TRUE)
  /\ UNCHANGED <<paymentMethod, isComplete, plaidToken, form, links, exercise, loader,
                 compensation>>

\* createToken resolved with a token: the strategy returns the token and
\* the remainder, submit attaches the token id and issues the POST
createTokenOk(i) ==
  /\ i \in 1..Len(attempts)
  /\ attempts[i].pc = "token"
  /\ attempts' = [attempts EXCEPT ![i] =
        [@ EXCEPT !.pc = "post",
                  !.body = stripeBody(getRemainder(attempts[i].fields),
                                      StripeTokenId),
                  !.posts = @ + 1]]
  /\ UNCHANGED <<paymentMethod, isLoading, isComplete, plaidToken, form,
                 links, exercise, loader,
                 compensation>>

\* createToken resolved with an error: the switch on error.param, the
\* rejection of the strategy, then catch and finally of submit
createTokenError(i, param) ==
  /\ i \in 1..Len(attempts)
  /\ attempts[i].pc = "token"
  /\ LET field == ErrorField(attempts[i].strategy, param)
         set == setInvalid(form, field, StripeMessage)
     IN IF field = Null
        THEN \* default branch: reject(result.error.message)
             /\ attempts' = [attempts EXCEPT ![i] =
                               Finished(@, StripeMessage, {}, FALSE)]
             /\ UNCHANGED form
        ELSE IF set.threw
        THEN \* the input is not in the form: setInvalid throws
             /\ attempts' = [attempts EXCEPT ![i] =
                               Finished(@, TypeError, {}, FALSE)]
             /\ UNCHANGED form
        ELSE \* field marked, reject('')
             /\ attempts' = [attempts EXCEPT ![i] =
                               Finished(@, "", {field}, FALSE)]
             /\ form' = set.form
  /\ isLoading' = exitLoading(TRUE)
  /\ UNCHANGED <<paymentMethod, isComplete, plaidToken, links, exercise, loader,
                 compensation>>

\* a variant that calls createToken again after a rejection
createTokenRetried(i) ==
  /\ i \in 1..Len(attempts)
  /\ attempts[i].pc = "token"
  /\ attempts[i].tokenCalls < 2
  /\ attempts' = [attempts EXCEPT ![i].tokenCalls = @ + 1]
  /\ UNCHANGED <<paymentMethod, isLoading, isComplete, plaidToken, form, links,
                 exercise, loader, compensation>>

\* createToken itself rejected or threw
createTokenRejected(i) ==
  /\ i \in 1..Len(attempts)
  /\ attempts[i].pc = "token"
  /\ attempts' = [attempts EXCEPT ![i] = Finished(@, Rejected, {}, FALSE)]
  /\ isLoading' = exitLoading(TRUE)
  /\ UNCHANGED <<paymentMethod, isComplete, plaidToken, form, links, exercise, loader,
                 compensation>>

\* the POST settled with an OK status
fetchOk(i) ==
  /\ i \in 1..Len(attempts)
  /\ attempts[i].pc = "post"
  /\ isComplete' = TRUE
  /\ attempts' = [attempts EXCEPT ![i] = Finished(@, "", {}, TRUE)]
  /\ isLoading' = exitLoading(FALSE)
  /\ UNCHANGED <<paymentMethod, plaidToken, form, links, exercise, loader,
                 compensation>>

\* the POST settled with a non-OK status: await result.json(); fields and
\* body are not read again
fetchNotOk(i) ==
  /\ i \in 1..Len(attempts)
  /\ attempts[i].pc = "post"
  /\ attempts' = [attempts EXCEPT ![i] =
        [@ EXCEPT !.pc = "json", !.body = << >>, !.fields = NoFields,
                  !.token = NoToken]]
  /\ UNCHANGED <<paymentMethod, isLoading, isComplete, plaidToken, form,
                 links, exercise, loader,
                 compensation>>

\* the fetch rejected
fetchRejected(i) ==
  /\ i \in 1..Len(attempts)
  /\ attempts[i].pc = "post"
  /\ attempts' = [attempts EXCEPT ![i] = Finished(@, Rejected, {}, FALSE)]
  /\ isLoading' = exitLoading(TRUE)
  /\ UNCHANGED <<paymentMethod, isComplete, plaidToken, form, links, exercise, loader,
                 compensation>>

\* the error body arrived with error.param set: setInvalid and throw false
jsonParam(i, param) ==
  /\ i \in 1..Len(attempts)
  /\ attempts[i].pc = "json"
  /\ LET set == setInvalid(form, param, ApiMessage)
     IN IF set.threw
        THEN /\ attempts' = [attempts EXCEPT ![i] =
                               Finished(@, TypeError, {}, FALSE)]
             /\ UNCHANGED form
        ELSE /\ attempts' = [attempts EXCEPT ![i] =
                               Finished(@, "", {param}, FALSE)]
             /\ form' = set.form
  /\ isLoading' = exitLoading(TRUE)
  /\ UNCHANGED <<paymentMethod, isComplete, plaidToken, links, exercise, loader,
                 compensation>>

\* a variant of the else branch that does not throw, so that control falls
\* through to the assignment after the if
jsonMessageNoThrow(i) ==
  /\ i \in 1..Len(attempts)
  /\ attempts[i].pc = "json"
  /\ isComplete' = TRUE
  /\ attempts' = [attempts EXCEPT ![i] = Finished(@, ApiMessage, {}, TRUE)]
  /\ isLoading' = exitLoading(FALSE)
  /\ UNCHANGED <<paymentMethod, plaidToken, form, links, exercise, loader,
                 compensation>>

\* the error body arrived without error.param: throw error.message
jsonMessage(i) ==
  /\ i \in 1..Len(attempts)
  /\ attempts[i].pc = "json"
  /\ attempts' = [attempts EXCEPT ![i] = Finished(@, ApiMessage, {}, FALSE)]
  /\ isLoading' = exitLoading(TRUE)
  /\ UNCHANGED <<paymentMethod, isComplete, plaidToken, form, links, exercise, loader,
                 compensation>>

\* result.json() rejected, or the body carries no error object
jsonRejected(i) ==
  /\ i \in 1..Len(attempts)
  /\ attempts[i].pc = "json"
  /\ attempts' = [attempts EXCEPT ![i] = Finished(@, Rejected, {}, FALSE)]
  /\ isLoading' = exitLoading(TRUE)
  /\ UNCHANGED <<paymentMethod, isComplete, plaidToken, form, links, exercise, loader,
                 compensation>>

\* ------------------------------------------------------------------------
\* Specification of the component
\* ------------------------------------------------------------------------
Attempts == 1..MaxSubmits
Links == 1..MaxLinks

UserEvent ==
  \/ \E method \in Methods : setMethod(method)
  \/ \E field \in AllFields : \E value \in EditValues(field) :
       inputEvent(field, value)
  \/ clearPlaid
  \/ openPlaid
  \/ submit

LinkStep ==
  \/ \E k \in Links : linkTokenResponse(k)
  \/ \E k \in Links : \E m \in PlaidMetadata :
       onSuccess(k, PlaidPublicToken(k), m)
  \/ \E k \in Links : onExit(k)

SubmitStep(i) ==
  \/ stripeSettled(i)
  \/ createTokenOk(i)
  \/ \E param \in StripeParams : createTokenError(i, param)
  \/ createTokenRejected(i)
  \/ fetchOk(i)
  \/ fetchNotOk(i)
  \/ fetchRejected(i)
  \/ \E param \in ApiParams : jsonParam(i, param)
  \/ jsonMessage(i)
  \/ jsonRejected(i)

Next ==
  \/ UserEvent
  \/ LinkStep
  \/ \E i \in Attempts : SubmitStep(i)

Spec == Init /\ [][Next]_vars

\* every call that was issued settles, and the continuation of the handler
\* that awaits it then runs; the runs with at most one Connect Bank click
FairSpec ==
  /\ Init
  /\ [][Next /\ Len(links') <= 1]_vars
  /\ \A i \in Attempts : WF_vars(SubmitStep(i))

\* ------------------------------------------------------------------------
\* Specification of the splicer on its own
\* ------------------------------------------------------------------------
\* field names and values the exercised payloads are built from
ExerciseNames == {"billing-zip", "currency", "signature"}
ExerciseValues == {"", "v"}
\* names passed to splice: the payload's names and one it never has
ExerciseFields == ExerciseNames \cup {"routing-number"}

RECURSIVE Payloads(_)
\* every payload of at most n pairs
Payloads(n) ==
  IF n = 0 THEN {<< >>}
  ELSE LET shorter == Payloads(n - 1)
       IN shorter \cup
          {Append(p, <<name, value>>) :
             p \in {q \in shorter : Len(q) = n - 1},
             name \in ExerciseNames, value \in ExerciseValues}

InitSplicer ==
  /\ InitComponent
  /\ InitPlaid
  /\ InitCompensation
  /\ input \in Payloads(MaxLen)
  /\ splicer = SpliceableUrlSearchParams(input)
  /\ calls = << >>
  /\ returned = << >>

\* one call of splice(field) on the exercised object
spliceCall(field) ==
  /\ Len(calls) + Len(returned) < MaxSplices
  /\ LET r == splice(splicer, field)
     IN /\ splicer' = r.self
        /\ calls' = Append(calls, [field |-> field, ret |-> r.ret,
                                   before |-> getRemainder(splicer),
                                   after |-> getRemainder(r.self)])
        /\ returned' = Aliased(returned, getRemainder(r.self))
  /\ UNCHANGED <<input, component, loader, compensation>>

\* one call of getRemainder() on the exercised object
getRemainderCall ==
  /\ Len(calls) + Len(returned) < MaxSplices
  /\ returned' = Append(returned, NewURLSearchParams(getRemainder(splicer)))
  /\ UNCHANGED <<input, splicer, calls, component, loader, compensation>>

\* the caller changes a map it got from getRemainder, as submit does with
\* body.set
returnedSet(j, field, value) ==
  /\ j \in 1..Len(returned)
  /\ ParamsGet(returned[j].params, field) # value
  /\ LET changed == ParamsSet(returned[j].params, field, value)
     IN /\ returned' =
             [Aliased(returned, IF returned[j].shared THEN changed
                                ELSE getRemainder(splicer))
                EXCEPT ![j].params = changed]
        /\ splicer' = IF returned[j].shared
                      THEN [splicer EXCEPT !.remainder = changed]
                      ELSE splicer
  /\ UNCHANGED <<input, calls, component, loader, compensation>>

\* the pairs the caller sets
SetNames == {"stripe-payment-token", "currency"}

NextSplicer ==
  \/ \E field \in ExerciseFields : spliceCall(field)
  \/ getRemainderCall
  \/ \E j \in 1..MaxSplices : \E field \in SetNames :
       returnedSet(j, field, StripeTokenId)

SpliceSpec == InitSplicer /\ [][NextSplicer]_vars

\* ------------------------------------------------------------------------
\* Specification of the script loader on its own
\* ------------------------------------------------------------------------
\* new Signup(): the field initializer calls loadPlaid()
construct ==
  /\ Len(instances) < MaxInstances
  /\ LET made == loadPlaid(loadingPlaid, scripts)
     IN /\ loadingPlaid' = made.loadingPlaid
        /\ scripts' = made.scripts
        /\ instances' = Append(instances,
             [plaid |-> made.ret,
              calledWhen |-> IF loadingPlaid = NoPromise THEN "first"
                             ELSE Settlement(scripts, loadingPlaid),
              observed |-> "none"])
  /\ UNCHANGED <<component, exercise, compensation>>

\* load event of script p: resolve(window.Plaid)
scriptLoad(p) ==
  /\ p \in 1..Len(scripts)
  /\ scripts[p] = "loading"
  /\ scripts' = [scripts EXCEPT ![p] = "loaded"]
  /\ UNCHANGED <<loadingPlaid, instances, component, exercise, compensation>>

\* error event of script p: reject(error)
scriptError(p) ==
  /\ p \in 1..Len(scripts)
  /\ scripts[p] = "loading"
  /\ scripts' = [scripts EXCEPT ![p] = "failed"]
  /\ UNCHANGED <<loadingPlaid, instances, component, exercise, compensation>>

\* element k reaches await this.plaid in openPlaid
awaitPlaid(k) ==
  /\ k \in 1..Len(instances)
  /\ instances[k].observed = "none"
  /\ instances' = [instances EXCEPT ![k].observed = "waiting"]
  /\ UNCHANGED <<loadingPlaid, scripts, component, exercise, compensation>>

\* the continuation of that await runs with the settled promise
plaidSettled(k) ==
  /\ k \in 1..Len(instances)
  /\ instances[k].observed = "waiting"
  /\ Settlement(scripts, instances[k].plaid) # "pending"
  /\ instances' = [instances EXCEPT
                     ![k].observed = Settlement(scripts, instances[k].plaid)]
  /\ UNCHANGED <<loadingPlaid, scripts, component, exercise, compensation>>

Instances == 1..MaxInstances

NextLoader ==
  \/ construct
  \/ \E p \in Instances : scriptLoad(p)
  \/ \E p \in Instances : scriptError(p)
  \/ \E k \in Instances : awaitPlaid(k)
  \/ \E k \in Instances : plaidSettled(k)

\* the page before any element is constructed
InitPage == InitComponent /\ InitExercise /\ InitCompensation /\ InitLoader

LoaderSpec == InitPage /\ [][NextLoader]_vars

\* ------------------------------------------------------------------------
\* Specification of the dues display on its own
\* ------------------------------------------------------------------------
\* input event on total-compensation (a character typed, or the input
\* emptied): compChangeHandler requests an update and render() calls
\* formattedDues
compChangeHandler(value) ==
  /\ Len(value) <= MaxChars
  /\ value # totalCompensation
  /\ totalCompensation' = value
  /\ dues' = formattedDues(value)
  /\ UNCHANGED <<component, exercise, loader>>

NextDues ==
  \/ \E c \in CompChars : compChangeHandler(Append(totalCompensation, c))
  \/ compChangeHandler(<< >>)

DuesSpec == Init /\ [][NextDues]_vars

\* ------------------------------------------------------------------------
\* Properties
\* ------------------------------------------------------------------------
Started == 1..Len(attempts)

InFlight == {i \in Started : attempts[i].pc \in Pending}

Posting == {i \in Started : attempts[i].pc = "post"}

NonPaymentNames == SeqRange(FieldsBeforePayment) \cup SeqRange(FieldsAfterPayment)

\* C1: every submit call that is awaiting something eventually returns, and
\* isLoading is false when it has returned
C1_LoadingClearedAfterEveryAttempt ==
  \A i \in Attempts :
    (i \in Started /\ attempts[i].pc \in Pending)
      ~> (i \in Started /\ attempts[i].pc = "done" /\ ~isLoading)

\* C1 witness: two calls have returned, one that completed the signup and
\* one that failed with an alert, and the form is enabled again
C1_Witness ==
  /\ ~isLoading
  /\ \E i, j \in Started :
       /\ attempts[i].pc = "done" /\ attempts[i].complete
       /\ attempts[j].pc = "done" /\ attempts[j].alert # ""

\* C2: at most one submit call is between setting isLoading and its
\* finally block
C2_OneSubmissionInFlight == Cardinality(InFlight) <= 1

\* C3: a submit call that found a plaidToken calls no tokenization strategy,
\* and the body it POSTs is every field of the form, unchanged and in order,
\* followed by plaid-public-token and plaid-account-id of that token
C3_LinkedSubmitSkipsTokenization ==
  \A i \in Started :
    attempts[i].linked =>
      /\ attempts[i].strategy = "none"
      /\ attempts[i].tokenCalls = 0
      /\ attempts[i].pc = "post" =>
           /\ attempts[i].body =
                attempts[i].fields.original
                  \o << <<"plaid-public-token", attempts[i].token.public_token>>,
                        <<"plaid-account-id", attempts[i].token.account_id>> >>
           /\ ParamsNames(attempts[i].fields.original)
                = SeqRange(FormFields("connected"))
           /\ attempts[i].token # NoToken

\* C3 witness: a POST is pending that was issued with the keys of a
\* plaidToken holding the first of two listed accounts
C3_Witness ==
  \E i \in Started :
    /\ attempts[i].linked
    /\ attempts[i].pc = "post"
    /\ ParamsGet(attempts[i].body, "plaid-account-id") = "acct-B"

\* C4: the strategy a submit call entered is the one of the selected
\* method: bank exactly for bank, card exactly for card
C4_StrategyMatchesSelectedMethod ==
  \A i \in InFlight :
    attempts[i].strategy # "none" =>
      /\ attempts[i].strategy = "bank" <=> attempts[i].method = "bank"
      /\ attempts[i].strategy = "card" <=> attempts[i].method = "card"

\* C5: when createToken of the selected method's strategy fails with a
\* parameter of the strategy's switch, the step marks exactly the input of
\* that parameter with the processor's message and changes no other input,
\* shows no alert, has sent no POST and does not complete the signup
C5_KnownParamMarksOneField ==
  [][\A i \in Attempts : \A param \in StripeParams :
       (/\ i \in Started
        /\ attempts[i].pc = "token"
        /\ attempts[i].strategy = attempts[i].method
        /\ param \in KnownParams(attempts[i].strategy)
        /\ createTokenError(i, param))
       => LET field == ErrorField(attempts[i].strategy, param)
          IN /\ field \in DOMAIN form
             /\ DOMAIN form' = DOMAIN form
             /\ form'[field].validity = StripeMessage
             /\ \A g \in DOMAIN form \ {field} : form'[g] = form[g]
             /\ attempts'[i].alert = ""
             /\ attempts'[i].posts = 0
             /\ ~attempts'[i].complete
             /\ isComplete' = isComplete]_vars

\* the inputs of the payment methods other than the given one
OtherMethodFields(method) ==
  CASE method = "bank" -> SeqRange(cardTemplate)
    [] method = "card" -> SeqRange(bankTemplate)
    [] OTHER -> SeqRange(bankTemplate) \cup SeqRange(cardTemplate)

\* the inputs of the payment section that is shown
ShownMethodFields ==
  CASE view = "bank" -> SeqRange(bankTemplate)
    [] view = "card" -> SeqRange(cardTemplate)
    [] OTHER -> {}

C7_NoSensitiveFieldPosted ==
  \A i \in Posting :
    attempts[i].strategy # "none" =>
      /\ attempts[i].strategy = "card" =>
           ParamsNames(attempts[i].body) \cap
             {"card-holder-name", "billing-address-1", "billing-address-2",
              "billing-city", "billing-state", "billing-zip",
              "billing-country"} = {}
      /\ attempts[i].strategy = "bank" =>
           ParamsNames(attempts[i].body) \cap
             {"billing-country", "routing-number", "account-number",
              "account-holder-name"} = {}
      /\ ParamsNames(attempts[i].body)
           = NonPaymentNames \cup {"stripe-payment-token"}

\* C7 witness: two POSTs are pending, one after the card strategy and one
\* after the bank strategy, and each form had held the strategy's inputs
C7_Witness ==
  \E i, j \in Started :
    /\ attempts[i].pc = "post" /\ attempts[i].strategy = "card"
    /\ get(attempts[i].fields, "billing-zip") # Null
    /\ attempts[j].pc = "post" /\ attempts[j].strategy = "bank"
    /\ get(attempts[j].fields, "routing-number") = "110000000"

HasBoth(body) ==
  ParamsHas(body, "plaid-public-token") /\ ParamsHas(body, "plaid-account-id")

HasEither(body) ==
  ParamsHas(body, "plaid-public-token") \/ ParamsHas(body, "plaid-account-id")

\* C8: every POSTed body carries stripe-payment-token and no plaid key, or
\* both plaid keys and no stripe-payment-token
C8_ExactlyOneCredential ==
  \A i \in Posting :
    LET body == attempts[i].body
    IN \/ ParamsHas(body, "stripe-payment-token") /\ ~HasEither(body)
       \/ ~ParamsHas(body, "stripe-payment-token") /\ HasBoth(body)

\* C8 witness: a POST with the stripe token and a POST with the plaid keys
\* are pending together
C8_Witness ==
  \E i, j \in Started :
    /\ attempts[i].pc = "post"
    /\ ParamsHas(attempts[i].body, "stripe-payment-token")
    /\ attempts[j].pc = "post"
    /\ HasBoth(attempts[j].body)

Spliced == {calls[k].field : k \in 1..Len(calls)}

\* C9: after any splices the remainder is the input without the pairs whose
\* name was spliced, the other pairs unchanged and in order
C9_RemainderIsInputMinusSpliced ==
  getRemainder(splicer) = SelectSeq(input, LAMBDA e : e[1] \notin Spliced)

\* C9 witness: two different fields of the payload were spliced and a pair
\* of a third kind is left
C9_Witness ==
  /\ \E k, l \in 1..Len(calls) :
       /\ calls[k].field = "billing-zip"
       /\ calls[l].field = "currency"
  /\ ParamsHas(input, "billing-zip")
  /\ ParamsHas(input, "currency")
  /\ getRemainder(splicer) # << >>

NullOrEmpty(v) == v = Null \/ v = ""

\* C10 as stated: a repeated splice of a field returns null or the empty
\* string and leaves the remainder as the first splice left it
C10_SecondSpliceReturnsNull ==
  \A k, l \in 1..Len(calls) :
    (k < l /\ calls[k].field = calls[l].field) =>
      /\ NullOrEmpty(calls[l].ret)
      /\ calls[l].after = calls[l].before

\* C10 amended: a repeated splice of a field returns what the first splice
\* returned and leaves the remainder unchanged
C10_SecondSpliceReturnsSame ==
  \A k, l \in 1..Len(calls) :
    (k < l /\ calls[k].field = calls[l].field) =>
      /\ calls[l].ret = calls[k].ret
      /\ calls[l].after = calls[l].before
      /\ l = k + 1 => calls[l].after = calls[k].after

\* C10 witness: a field the payload holds with a value was spliced twice in
\* a row
C10_Witness ==
  \E k \in 1..Len(calls) :
    /\ k + 1 <= Len(calls)
    /\ calls[k].field = calls[k + 1].field
    /\ calls[k].ret = "v"
    /\ calls[k].before # calls[k].after

\* the outcome a returned submit call recorded
Failed(i) == attempts[i].alert # "" \/ attempts[i].marked # {}

C11_Outcomes ==
  /\ \A i \in Started :
       attempts[i].complete =>
         /\ attempts[i].pc = "done"
         /\ attempts[i].posts = 1
         /\ ~Failed(i)
  /\ isComplete <=> \E i \in Started : attempts[i].complete

\* C11: a submit call sets isComplete only in the step in which its POST
\* settles with an OK status, and a call that marked a field or showed an
\* alert did not set it
C11_SuccessExcludesError ==
  /\ []C11_Outcomes
  /\ [][isComplete' # isComplete =>
         \E i \in Started : attempts[i].pc = "post" /\ fetchOk(i)]_vars

\* C11 witness: one call completed the signup, another marked a field after
\* a non-OK answer to its POST
C11_Witness ==
  /\ isComplete
  /\ \E i, j \in Started :
       /\ attempts[i].complete
       /\ attempts[j].pc = "done" /\ attempts[j].marked # {}
       /\ attempts[j].posts = 1 /\ ~attempts[j].complete

\* a submit call that took the branch of the state it was submitted in: the
\* plaid keys when an account was linked, else the selected method's strategy
Regular(i) == attempts[i].linked \/ attempts[i].strategy = attempts[i].method

\* C12: when the error body of a non-OK answer names a form field in
\* error.param, the step marks that input with the error's message and shows
\* no alert; when it names no form field, or carries no param, the step
\* alerts the error's message and marks nothing
C12_ParamMarksFieldElseAlert ==
  [][\A i \in Attempts :
       (i \in Started /\ attempts[i].pc = "json" /\ Regular(i)) =>
         /\ \A param \in ApiParams :
              jsonParam(i, param) =>
                IF param \in AllFields
                THEN /\ param \in DOMAIN form'
                     /\ form'[param].validity = ApiMessage
                     /\ attempts'[i].alert = ""
                ELSE /\ attempts'[i].alert = ApiMessage
                     /\ form' = form
         /\ jsonMessage(i) =>
              /\ attempts'[i].alert = ApiMessage
              /\ form' = form]_vars

\* C13: no handler ends with an uncaught failure: a submit call that failed
\* recorded an alert or a marked field and returned, and no openPlaid call
\* ended as a rejected promise
C13_NoFailureEscapes ==
  /\ \A i \in Started :
       (attempts[i].pc = "done" /\ ~attempts[i].complete) => Failed(i)
  /\ \A k \in 1..Len(links) : links[k].pc # "rejected"

\* C14: over any constructions and script events at most one script element
\* was injected, every element holds the promise the first call created, and
\* no two awaits of it observed different results
C14_OneScriptOnePromise ==
  /\ Len(scripts) <= 1
  /\ (instances # << >>) => loadingPlaid = 1 /\ Len(scripts) = 1
  /\ \A k \in 1..Len(instances) : instances[k].plaid = loadingPlaid
  /\ \A k, l \in 1..Len(instances) :
       (instances[k].observed \in {"Plaid", "error"} /\
        instances[l].observed \in {"Plaid", "error"})
         => instances[k].observed = instances[l].observed

\* C14 witness: three elements, constructed before any load, while the load
\* was pending and after it had resolved, have all observed the library
C14_Witness ==
  /\ Len(scripts) = 1
  /\ \E k, l, m \in 1..Len(instances) :
       /\ instances[k].calledWhen = "first"
       /\ instances[l].calledWhen = "pending"
       /\ instances[m].calledWhen = "Plaid"
       /\ instances[k].observed = "Plaid"
       /\ instances[l].observed = "Plaid"
       /\ instances[m].observed = "Plaid"

\* the number the compensation text denotes, when it denotes one
Compensation == Number(totalCompensation)

\* the integers the dues of the compensation can be: no text of MaxChars
\* characters denotes a number of magnitude 10^MaxChars / den or more
DuesRange ==
  LET top == (Pow10(MaxChars) \div Compensation.den) \div 1200
  IN (0 - top - 1)..top

\* the text after the dollar sign
DuesDigits == IF dues[2] = "-" THEN SubSeq(dues, 3, Len(dues)) ELSE Tail(dues)

\* the integer the shown dues read as
DuesNumber ==
  IF dues[2] = "-" THEN 0 - DigitsValue(DuesDigits) ELSE DigitsValue(DuesDigits)

\* C15: the dues shown are "$0" when the compensation is not a number, and
\* otherwise "$" and the decimal numeral of the integer n with
\* 1200 n <= tc < 1200 (n + 1); 250000 shows $208 and 0 shows $0
C15_DuesShown ==
  /\ dues[1] = "$"
  /\ Compensation.nan => dues = << "$", "0" >>
  /\ ~Compensation.nan =>
       /\ DuesDigits # << >>
       /\ \A i \in 1..Len(DuesDigits) : DuesDigits[i] \in Digits
       /\ Len(DuesDigits) > 1 => DuesDigits[1] # "0"
       /\ DuesNumber \in DuesRange
       /\ 1200 * DuesNumber * Compensation.den <= Compensation.num
       /\ Compensation.num < 1200 * (DuesNumber + 1) * Compensation.den
  /\ totalCompensation = << "2", "5", "0", "0", "0", "0" >>
       => dues = << "$", "2", "0", "8" >>
  /\ totalCompensation = << "0" >> => dues = << "$", "0" >>

\* C15 witness: 250000 was typed and $208 is shown
C15_Witness ==
  /\ totalCompensation = << "2", "5", "0", "0", "0", "0" >>
  /\ dues = << "$", "2", "0", "8" >>

Flows == 1..Len(links)

\* the flows whose handler was created
Created == {k \in Flows : links[k].pc \in {"open", "success", "destroyed"}}

\* the steps one flow takes
FlowSteps ==
  { <<"fetch", "open">>, <<"fetch", "rejected">>,
    <<"open", "success">>, <<"open", "destroyed">> }

\* C16: every flow goes from the link-token request to the opened handler
\* and then to success or exit, no two handlers are created with the same
\* link token, every click starts a new request, and an exit destroys the
\* handler of its flow and leaves the component without a plaidToken
C16_LinkFlow ==
  /\ [](\A k, l \in Created : k # l => links[k].link_token # links[l].link_token)
  /\ [][/\ \A k \in Flows :
             links'[k] # links[k] => <<links[k].pc, links'[k].pc>> \in FlowSteps
        /\ openPlaid =>
             /\ Len(links') = Len(links) + 1
             /\ links'[Len(links')].pc = "fetch"
        /\ \A k \in Flows :
             (links[k].pc = "open" /\ onExit(k)) =>
               /\ links'[k].pc = "destroyed"
               /\ plaidToken' = NoToken]_vars

\* C17: a plaidToken exists only while the selected payment method is plaid
C17_TokenOnlyUnderPlaid == plaidToken # NoToken => paymentMethod = "plaid"

\* the calls a submit call has made, by the await it is at
C18_CallsSoFar ==
  \A i \in Started :
    LET a == attempts[i]
    IN /\ a.tokenCalls <= 1 /\ a.posts <= 1
       /\ a.linked => a.tokenCalls = 0
       /\ a.pc = "stripe" => a.tokenCalls = 0 /\ a.posts = 0
       /\ a.pc = "token" => a.tokenCalls = 1 /\ a.posts = 0
       /\ a.pc \in {"post", "json"} =>
            a.posts = 1 /\ (a.linked \/ a.tokenCalls = 1)
       /\ (a.posts = 1 /\ ~a.linked) => a.tokenCalls = 1

\* C18: a submit call makes at most one createToken call and at most one
\* POST; the POST is issued in the step in which createToken resolved with
\* a token, or at once when a plaidToken was present; a call that returned
\* makes no further call
C18_SequentialNoRetry ==
  /\ []C18_CallsSoFar
  /\ [][/\ \A i \in Started :
             /\ attempts'[i].posts # attempts[i].posts =>
                  attempts[i].pc = "token" /\ createTokenOk(i)
             /\ attempts'[i].tokenCalls # attempts[i].tokenCalls =>
                  attempts[i].pc = "stripe" /\ attempts[i].posts = 0
             /\ attempts[i].pc = "done" => attempts'[i] = attempts[i]
        /\ Len(attempts') > Len(attempts) =>
             LET a == attempts'[Len(attempts')]
             IN a.tokenCalls = 0 /\ (a.posts = 1 <=> a.linked)]_vars

\* C18 witness: one call made one createToken call and one POST and failed
\* on the answer, another POSTed the plaid keys without tokenization and
\* completed
C18_Witness ==
  \E i, j \in Started :
    /\ attempts[i].pc = "done" /\ attempts[i].alert # ""
    /\ attempts[i].tokenCalls = 1 /\ attempts[i].posts = 1
    /\ attempts[j].pc = "done" /\ attempts[j].complete
    /\ attempts[j].linked /\ attempts[j].tokenCalls = 0

\* C19: whatever was spliced and whatever a caller did to a map it got from
\* getRemainder, the readable copy is the input (get returns the value the
\* input has for every name), the remainder holds pairs of the input only,
\* and a change of a returned map changes nothing of the splicer
C19_OriginalIsNeverChanged ==
  /\ [](/\ splicer.original = input
        /\ \A field \in ExerciseFields \cup SetNames :
             get(splicer, field) = ParamsGet(input, field)
        /\ \A e \in SeqRange(getRemainder(splicer)) : e \in SeqRange(input)
        /\ Len(getRemainder(splicer)) <= Len(input))
  /\ [][\A j \in 1..Len(returned) : \A field \in SetNames :
          returnedSet(j, field, StripeTokenId) => splicer' = splicer]_vars

\* C19 witness: a field was spliced out and get still returns its value, and
\* a map from getRemainder now holds a token the remainder does not hold
C19_Witness ==
  /\ \E k \in 1..Len(calls) :
       /\ calls[k].ret = "v"
       /\ ~ParamsHas(getRemainder(splicer), calls[k].field)
       /\ get(splicer, calls[k].field) = "v"
  /\ \E j \in 1..Len(returned) :
       /\ ParamsHas(returned[j].params, "stripe-payment-token")
       /\ ParamsGet(returned[j].params, "currency") = StripeTokenId
  /\ ~ParamsHas(getRemainder(splicer), "stripe-payment-token")
  /\ ParamsGet(getRemainder(splicer), "currency") = "v"

\* C20: plaidToken changes only in an onSuccess step and in a clearPlaid
\* step; onSuccess sets it to the callback's public token with the id and
\* name of the first listed account, clearPlaid unsets it
C20_TokenWrittenBySuccessAndRemove ==
  [][/\ \A k \in Flows : \A m \in PlaidMetadata :
          (links[k].pc = "open" /\ onSuccess(k, PlaidPublicToken(k), m)) =>
            plaidToken' = [public_token |-> PlaidPublicToken(k),
                           account_name |-> <<m.institution, m.accounts[1].name>>,
                           account_id |-> m.accounts[1].id]
     /\ (view = "connected" /\ clearPlaid) => plaidToken' = NoToken
     /\ plaidToken' # plaidToken =>
          \/ view = "connected" /\ clearPlaid
          \/ \E k \in Flows : \E m \in PlaidMetadata :
               links[k].pc = "open" /\ onSuccess(k, PlaidPublicToken(k), m)]_vars

\* C20 witness: the token the second flow's success set, with the first
\* listed account, is still in place after one submit call completed and
\* another failed
C20_Witness ==
  /\ plaidToken # NoToken
  /\ plaidToken.account_id = "acct-B"
  /\ plaidToken.public_token = PlaidPublicToken(2)
  /\ links[1].pc = "success"
  /\ \E i, j \in Started :
       /\ attempts[i].pc = "done" /\ attempts[i].complete /\ attempts[i].linked
       /\ attempts[j].pc = "done" /\ attempts[j].alert # "" /\ attempts[j].linked

\* the submit calls with a createToken call or a POST outstanding
CallPending == {i \in Started : attempts[i].pc \in {"token", "post"}}

\* C21: while a submit call has a createToken call or a POST outstanding,
\* isLoading is true
C21_LoadingWhileCallPending == CallPending # {} => isLoading

====
